---- MODULE Spec2Model ----
(***************************************************************************)
(* Model of sincera_data_processor.py: the sliding-window RateLimiter, the *)
(* retrying fetch_publisher_metadata and the row loop of                   *)
(* process_excel_file.  Time is a discrete monotonic clock (`now`); every  *)
(* blocking call (time.sleep) and every network call is a step boundary,   *)
(* and the clock may advance between any two steps.                        *)
(***************************************************************************)
EXTENDS Integers, Sequences, FiniteSets, TLC

VARIABLES
    max_requests,        \* RateLimiter.max_requests
    period_seconds,      \* RateLimiter.period_seconds
    request_timestamps,  \* RateLimiter.request_timestamps (deque, oldest first)
    now,                 \* time.monotonic()
    df,                  \* the input rows, in order
    has_pub_id,          \* 'publisher_id' in df.columns
    has_domain,          \* 'domain' in df.columns
    index,               \* number of rows whose iteration has completed
    pc,                  \* position of the single thread of control
    wake_at,             \* earliest instant the pending time.sleep may return
    identifier,          \* identifier of the row being fetched
    id_type,             \* 'id' / 'domain' / none
    attempt,             \* loop variable of `for attempt in range(MAX_RETRIES)`
    results,             \* the list `results` of process_excel_file
    exc,                 \* the exception that escaped process_excel_file, if any
    \* ---- history (observation only, never read by the actions' guards) ----
    recent_gets,         \* instants of the requests.get calls younger than period_seconds
    recent_records,      \* instants of the record_request calls younger than period_seconds
    result_rows,         \* for each element of results, the row it was produced for
    paced,               \* the record_request calls of the run: their number, the
                         \* instants of the first and of the latest
    cur,                 \* the row in progress or just completed: how often it called
                         \* wait_if_needed, did it call record_request,
                         \* how often requests.get, how many of those failed in transport,
                         \* and the statement that ended it
    last                 \* the latest response of the fetch in progress

vars == <<max_requests, period_seconds, request_timestamps, now, df, has_pub_id,
          has_domain, index, pc, wake_at, identifier, id_type, attempt, results,
          exc, recent_gets, recent_records, result_rows, paced,
          cur, last>>

\* ------------------------------------------------------------------ bounds
MaxRows == 2
MaxRequests == 1
MaxTime == 5

\* ------------------------------------------------------- program constants
DEFAULT_RETRY_DELAY == 2
MAX_RETRIES == 3

FIELDS ==
    {"publisher_id", "name", "visit_enabled", "status", "primary_supply_type",
     "pub_description", "categories", "slug", "avg_ads_to_content_ratio",
     "avg_ads_in_view", "avg_ad_refresh", "total_unique_gpids",
     "id_absorption_rate", "avg_page_weight", "avg_cpu", "total_supply_paths",
     "reseller_count", "owner_domain", "updated_at"}

\* ------------------------------------------------------------ Python values
\* A dynamically typed value: tag t, string payload s, integer payload n,
\* list payload l (a sequence of values).
None == [t |-> "none", s |-> "", n |-> 0, l |-> <<>>]
NaN == [t |-> "nan", s |-> "", n |-> 0, l |-> <<>>]
PyStr(x) == [t |-> "str", s |-> x, n |-> 0, l |-> <<>>]
PyInt(x) == [t |-> "int", s |-> "", n |-> x, l |-> <<>>]
PyList(x) == [t |-> "list", s |-> "", n |-> 0, l |-> x]

\* pd.notna(v): neither NaN nor None
NotNa(v) == v.t \notin {"nan", "none"}

\* bool(v) as `if identifier:` evaluates it
Truthy(v) ==
    CASE v.t = "none" -> FALSE
      [] v.t = "str" -> v.s # ""
      [] v.t = "int" -> v.n # 0
      [] v.t = "list" -> v.l # <<>>
      [] OTHER -> TRUE

\* int(identifier) succeeds (no ValueError / TypeError): of the cells modelled,
\* the integers; the text "abc" is no integer literal
IntParses(v) == v.t = "int"

\* {field: None for field in FIELDS}
NullRecord == [f \in FIELDS |-> None]

\* RateLimiter(max_requests, period_seconds): the periods tried
Periods == {1, 2}

\* ------------------------------------------------------------- the input
\* Cells pandas can hand over for the two columns; a missing column reads as
\* None through row.get.
DomainCells == {NaN, PyStr(""), PyStr("x.com")}
PubIdCells == {NaN, PyInt(0), PyInt(42), PyStr("abc")}

Rows(hp, hd) ==
    [publisher_id : IF hp THEN PubIdCells ELSE {None},
     domain : IF hd THEN DomainCells ELSE {None}]

\* Rows that take the loop body's three ways: a fetch, a record_request
\* without a request, and a skip.
CoreRows ==
    {[publisher_id |-> PyInt(42), domain |-> PyStr("x.com")],
     [publisher_id |-> PyStr("abc"), domain |-> NaN],
     [publisher_id |-> NaN, domain |-> NaN]}

RECURSIVE SeqsUpTo(_, _)
SeqsUpTo(S, n) ==
    IF n = 0 THEN {<<>>}
    ELSE LET shorter == SeqsUpTo(S, n - 1)
         IN shorter \cup {Append(q, x) : q \in {r \in shorter : Len(r) = n - 1}, x \in S}

\* The input tables: every one-row table of every column layout, and every
\* table of up to MaxRows core rows.
Tables(hp, hd) ==
    {<<r>> : r \in Rows(hp, hd)}
        \cup (IF hp /\ hd THEN SeqsUpTo(CoreRows, MaxRows) ELSE {})

\* ------------------------------------------------------- the remote API
\* JSON bodies of a 200 response: an object (k = "dict", members d), a list
\* (k = "list", elements items) or any other JSON value (k = "scalar").
NoMembers == [x \in {} |-> None]
JDict(d) == [k |-> "dict", d |-> d, items |-> <<>>]
JList(xs) == [k |-> "list", d |-> NoMembers, items |-> xs]
JScalar == [k |-> "scalar", d |-> NoMembers, items |-> <<>>]

Acme ==
    [publisher_id |-> PyInt(7), name |-> PyStr("Acme"),
     categories |-> PyList(<<PyStr("News"), PyStr("Tech")>>)]
Beta == [name |-> PyStr("Beta"), categories |-> PyStr("News"), extra |-> PyInt(1)]
Odd == [name |-> PyStr("Odd"), categories |-> PyList(<<PyInt(1)>>)]

Bodies ==
    <<JDict(Acme), JList(<<JDict(Beta), JDict(Acme)>>), JList(<<>>), JScalar,
      JList(<<JScalar>>), JDict(Odd)>>

\* The Retry-After header of a 429: absent, an integer literal, or any text
\* int() rejects (an HTTP date, "1.5", "").
HdrAbsent == [present |-> FALSE, isint |-> FALSE, n |-> 0]
HdrInt(x) == [present |-> TRUE, isint |-> TRUE, n |-> x]
HdrBad == [present |-> TRUE, isint |-> FALSE, n |-> 0]
RetryAfterHeaders == {HdrAbsent, HdrBad} \cup {HdrInt(x) : x \in {-1, 0, 3}}

\* --------------------------------------------------------- RateLimiter
\* the while loop of wait_if_needed
RECURSIVE Evict(_, _)
Evict(q, cutoff) ==
    IF q # <<>> /\ q[1] <= cutoff THEN Evict(Tail(q), cutoff) ELSE q

\* the limit test with > for >=
LimitReached_Strict(q) == Len(q) > max_requests

\* `len(self.request_timestamps) >= self.max_requests`
LimitReached(q) == Len(q) >= max_requests

\* the wait computed without the period
TimeToWait_NoPeriod(q, current_time) == q[1] - current_time

\* time_to_wait
TimeToWait(q, current_time) == q[1] - (current_time - period_seconds)

\* -------------------------------------------------- fetch_publisher_metadata
RECURSIVE Join(_)
Join(xs) ==
    IF xs = <<>> THEN ""
    ELSE IF Len(xs) = 1 THEN xs[1].s
    ELSE xs[1].s \o "; " \o Join(Tail(xs))

\* only the fields the response holds
Project_Present(d) == [f \in FIELDS \cap DOMAIN d |-> d[f]]

\* {field: data.get(field, None) for field in FIELDS}
Project(d) == [f \in FIELDS |-> IF f \in DOMAIN d THEN d[f] ELSE None]

\* The 200 branch: what fetch returns (raised = "none") or the exception that
\* escapes it.
Parse200(body) ==
    IF body.k = "list" /\ body.items = <<>>
    THEN [raised |-> "none", result |-> NullRecord]
    ELSE LET data == IF body.k = "list" THEN body.items[1] ELSE body
         IN IF data.k # "dict"
            THEN [raised |-> "AttributeError", result |-> NullRecord]
            ELSE LET result == Project(data.d)
                     cats == result["categories"]
                 IN IF cats.t # "list"
                    THEN [raised |-> "none", result |-> result]
                    ELSE IF \E i \in DOMAIN cats.l : cats.l[i].t # "str"
                    THEN [raised |-> "TypeError", result |-> NullRecord]
                    ELSE [raised |-> "none",
                          result |-> [result EXCEPT !["categories"] = PyStr(Join(cats.l))]]

\* range(MAX_RETRIES + 1)
LoopContinues_Extra(a) == a + 1 <= MAX_RETRIES

\* line 80: `for attempt in range(MAX_RETRIES)` has an iteration after a
LoopContinues(a) == a + 1 < MAX_RETRIES

\* line 115: `attempt < MAX_RETRIES - 1`
AttemptsRemain(a) == a < MAX_RETRIES - 1

\* int(response.headers.get('Retry-After', DEFAULT_RETRY_DELAY)); the
\* conversion raises ValueError on text that is no integer literal.
RetryAfterParses(h) == ~h.present \/ h.isint

\* the header ignored
RetryAfter_Default(h) == DEFAULT_RETRY_DELAY

RetryAfter(h) == IF h.present THEN h.n ELSE DEFAULT_RETRY_DELAY

\* ------------------------------------------------------ process_excel_file
\* the publisher_id tried before the domain
SelectIdentifier_IdFirst(row) ==
    IF has_pub_id /\ NotNa(row.publisher_id)
    THEN [identifier |-> row.publisher_id, id_type |-> "id"]
    ELSE IF has_domain /\ NotNa(row.domain)
    THEN [identifier |-> row.domain, id_type |-> "domain"]
    ELSE [identifier |-> None, id_type |-> "none"]

\* lines 158-166: the identifier and its kind
SelectIdentifier(row) ==
    IF has_domain /\ NotNa(row.domain)
    THEN [identifier |-> row.domain, id_type |-> "domain"]
    ELSE IF has_pub_id /\ NotNa(row.publisher_id)
    THEN [identifier |-> row.publisher_id, id_type |-> "id"]
    ELSE [identifier |-> None, id_type |-> "none"]

Put(r, key, v) == [x \in DOMAIN r \cup {key} |-> IF x = key THEN v ELSE r[x]]

\* the result put in front of the list
AppendRow_Front(list, x) == <<x>> \o list

\* line 183: results.append(result)
AppendRow(list, x) == Append(list, x)

\* the looked-up publisher_id written over the input one
Merge_Lookup(res, row) ==
    LET r1 == IF has_pub_id THEN Put(res, "input_publisher_id", res["publisher_id"]) ELSE res
    IN IF has_domain THEN Put(r1, "input_domain", row.domain) ELSE r1

\* lines 177-181: preserve the original identifiers
Merge(res, row) ==
    LET r1 == IF has_pub_id THEN Put(res, "input_publisher_id", row.publisher_id) ELSE res
    IN IF has_domain THEN Put(r1, "input_domain", row.domain) ELSE r1

NoResponse == [kind |-> "none", hdr |-> HdrAbsent, at |-> 0]
NewRow == [waits |-> 0, recorded |-> FALSE, gets |-> 0, failures |-> 0, end |-> "none"]

\* the instants of q younger than period_seconds at instant t
Younger(q, t) == SelectSeq(q, LAMBDA x : t - x < period_seconds)

\* process_excel_file up to its loop, the limiter's arguments apart
Start ==
    /\ request_timestamps = <<>>
    /\ now = 0
    /\ has_pub_id \in BOOLEAN
    /\ has_domain \in BOOLEAN
    /\ has_pub_id \/ has_domain
    /\ df \in Tables(has_pub_id, has_domain)
    /\ index = 0
    /\ pc = "row"
    /\ wake_at = 0
    /\ identifier = None
    /\ id_type = "none"
    /\ attempt = 0
    /\ results = <<>>
    /\ exc = "none"
    /\ recent_gets = <<>>
    /\ recent_records = <<>>
    /\ result_rows = <<>>
    /\ paced = [n |-> 0, first |-> 0, last |-> 0]
    /\ cur = NewRow
    /\ last = NoResponse

\* RateLimiter(max_requests, period_seconds) with both at least 1
Init ==
    /\ max_requests \in 1..MaxRequests
    /\ period_seconds \in Periods
    /\ Start

\* RateLimiter(max_requests, period_seconds) with any non-negative integers
InitAny ==
    /\ max_requests \in 0..MaxRequests
    /\ period_seconds \in {0} \cup Periods
    /\ Start

config == <<max_requests, period_seconds, df, has_pub_id, has_domain>>
limiter == <<request_timestamps, recent_records, paced>>
fetch == <<wake_at, identifier, id_type, attempt, last>>
output == <<results, result_rows, index>>

\* time.monotonic() advances where the thread blocks: while a sleep is pending
\* (time.sleep returns when it is due) and while a request is in flight.  The
\* history of the two windows drops what has reached the age period_seconds.
Tick ==
    /\ \/ pc \in {"rl_sleep", "fetch_sleep"} /\ now < wake_at
       \/ pc = "attempt"
    /\ now < MaxTime
    /\ now' = now + 1
    /\ recent_gets' = Younger(recent_gets, now + 1)
    /\ recent_records' = Younger(recent_records, now + 1)
    /\ UNCHANGED <<config, request_timestamps, paced, fetch, output,
                   pc, exc, cur>>

\* lines 177-183: merge the passthrough fields, append, next row (the locals
\* of fetch are gone)
Finish(res) ==
    /\ results' = AppendRow(results, Merge(res, df[index + 1]))
    /\ result_rows' = AppendRow(result_rows, index + 1)
    /\ index' = index + 1
    /\ pc' = "row"
    /\ wake_at' = 0
    /\ identifier' = None
    /\ id_type' = "none"
    /\ attempt' = 0
    /\ exc' = exc

\* an exception nothing catches: it leaves fetch and process_excel_file
Raise(e) ==
    /\ pc' = "raised"
    /\ exc' = e
    /\ UNCHANGED <<output, wake_at, identifier, id_type, attempt>>

\* line 152: rate_limiter.wait_if_needed(), up to its sleep
WaitIfNeeded ==
    /\ pc = "row"
    /\ index < Len(df)
    /\ LET current_time == now
           kept == Evict(request_timestamps, current_time - period_seconds)
       IN /\ request_timestamps' = kept
          /\ IF ~LimitReached(kept)
             THEN /\ pc' = "dispatch"
                  /\ UNCHANGED <<wake_at, exc>>
             ELSE IF kept = <<>>
             THEN /\ pc' = "raised"
                  /\ exc' = "IndexError"
                  /\ UNCHANGED wake_at
             ELSE IF TimeToWait(kept, current_time) > 0
             THEN /\ pc' = "rl_sleep"
                  /\ wake_at' = now + TimeToWait(kept, current_time)
                  /\ UNCHANGED exc
             ELSE /\ pc' = "dispatch"
                  /\ UNCHANGED <<wake_at, exc>>
    /\ cur' = [NewRow EXCEPT !.waits = 1]
    /\ UNCHANGED <<config, now, recent_records, paced, recent_gets, identifier, id_type,
                   attempt, last, output>>

\* the sleep of line 50 returning before its time
LimiterWake_Early ==
    /\ pc = "rl_sleep"
    /\ pc' = "dispatch"
    /\ wake_at' = 0
    /\ UNCHANGED <<config, now, limiter, recent_gets, identifier, id_type, attempt, last,
                   output, exc, cur>>

\* line 50: time.sleep(time_to_wait) returns
LimiterWake ==
    /\ pc = "rl_sleep"
    /\ now >= wake_at
    /\ pc' = "dispatch"
    /\ wake_at' = 0
    /\ UNCHANGED <<config, now, limiter, recent_gets, identifier, id_type, attempt, last,
                   output, exc, cur>>

\* the request recorded a second time
RecordRequest_Twice ==
    /\ request_timestamps' = request_timestamps \o <<now, now>>
    /\ recent_records' = recent_records \o <<now, now>>
    /\ paced' = [n |-> paced.n + 2,
                 first |-> IF paced.n = 0 THEN now ELSE paced.first,
                 last |-> now]

\* lines 52-54: record_request
RecordRequest ==
    /\ request_timestamps' = Append(request_timestamps, now)
    /\ recent_records' = Append(recent_records, now)
    /\ paced' = [n |-> paced.n + 1,
                 first |-> IF paced.n = 0 THEN now ELSE paced.first,
                 last |-> now]

\* lines 154-175 and 62-78: choose the identifier; with one, record_request
\* and enter fetch up to its first requests.get; without, the all-null record
Dispatch ==
    /\ pc = "dispatch"
    /\ LET sel == SelectIdentifier(df[index + 1])
       IN IF Truthy(sel.identifier)
          THEN /\ RecordRequest
               /\ IF sel.id_type = "id" /\ ~IntParses(sel.identifier)
                  THEN /\ Finish(NullRecord)
                       /\ cur' = [cur EXCEPT !.recorded = TRUE, !.end = "invalid"]
                  ELSE /\ cur' = [cur EXCEPT !.recorded = TRUE]
                       /\ pc' = "attempt"
                       /\ identifier' = sel.identifier
                       /\ id_type' = sel.id_type
                       /\ attempt' = 0
                       /\ UNCHANGED <<output, wake_at, exc>>
          ELSE /\ Finish(NullRecord)
               /\ cur' = [cur EXCEPT !.end = "skipped"]
               /\ UNCHANGED limiter
    /\ UNCHANGED <<config, now, recent_gets, last>>

\* line 82: requests.get is called and answered
Get(kind, end) ==
    /\ pc = "attempt"
    /\ recent_gets' = Append(recent_gets, now)
    /\ cur' = [cur EXCEPT !.gets = @ + 1,
                           !.failures = IF kind = "failure" THEN @ + 1 ELSE @,
                           !.end = end]
    /\ UNCHANGED <<config, now, limiter>>

\* lines 84-96: HTTP 200
Respond200 ==
    \E i \in DOMAIN Bodies :
        /\ LET out == Parse200(Bodies[i])
           IN /\ Get("ok", IF out.raised # "none" THEN "raised"
                           ELSE IF Bodies[i].k = "list" /\ Bodies[i].items = <<>> THEN "empty"
                           ELSE "ok")
              /\ IF out.raised = "none"
                 THEN Finish(out.result) /\ last' = NoResponse
                 ELSE Raise(out.raised) /\ last' = [kind |-> "ok", hdr |-> HdrAbsent, at |-> now]

\* lines 98-104: HTTP 429
Respond429 ==
    \E h \in RetryAfterHeaders :
        /\ Get("throttled", IF ~RetryAfterParses(h) \/ RetryAfter(h) < 0 THEN "raised" ELSE "none")
        /\ last' = [kind |-> "throttled", hdr |-> h, at |-> now]
        /\ IF ~RetryAfterParses(h) \/ RetryAfter(h) < 0
           THEN Raise("ValueError")
           ELSE /\ pc' = "fetch_sleep"
                /\ wake_at' = now + RetryAfter(h)
                /\ UNCHANGED <<output, identifier, id_type, attempt, exc>>

\* any other status retried like a transport failure
RespondOther_Retry ==
    /\ Get("other", "status")
    /\ IF AttemptsRemain(attempt)
       THEN /\ pc' = "fetch_sleep"
            /\ wake_at' = now + DEFAULT_RETRY_DELAY
            /\ last' = [kind |-> "other", hdr |-> HdrAbsent, at |-> now]
            /\ UNCHANGED <<output, identifier, id_type, attempt, exc>>
       ELSE /\ Finish(NullRecord)
            /\ last' = NoResponse

\* lines 106-111: any other status
RespondOther ==
    /\ Get("other", "status")
    /\ Finish(NullRecord)
    /\ last' = NoResponse

\* lines 113-120: requests.exceptions.RequestException
TransportFailure ==
    /\ Get("failure", IF AttemptsRemain(attempt) THEN "none" ELSE "failed")
    /\ IF AttemptsRemain(attempt)
       THEN /\ pc' = "fetch_sleep"
            /\ wake_at' = now + DEFAULT_RETRY_DELAY
            /\ last' = [kind |-> "failure", hdr |-> HdrAbsent, at |-> now]
            /\ UNCHANGED <<output, identifier, id_type, attempt, exc>>
       ELSE /\ Finish(NullRecord)
            /\ last' = NoResponse

\* lines 104/117 return, then line 80 (next attempt) or line 122
FetchWake ==
    /\ pc = "fetch_sleep"
    /\ now >= wake_at
    /\ IF LoopContinues(attempt)
       THEN /\ pc' = "attempt"
            /\ attempt' = attempt + 1
            /\ UNCHANGED <<output, wake_at, identifier, id_type, last, exc, cur>>
       ELSE /\ Finish(NullRecord)
            /\ cur' = [cur EXCEPT !.end = "exhausted"]
            /\ last' = NoResponse
    /\ UNCHANGED <<config, now, limiter, recent_gets>>

\* line 185: the loop is over
LoopEnd ==
    /\ pc = "row"
    /\ index = Len(df)
    /\ pc' = "done"
    /\ UNCHANGED <<config, now, limiter, recent_gets, fetch, output, exc, cur>>

Next ==
    \/ Tick
    \/ WaitIfNeeded
    \/ LimiterWake
    \/ Dispatch
    \/ Respond200
    \/ Respond429
    \/ RespondOther
    \/ TransportFailure
    \/ FetchWake
    \/ LoopEnd

Spec == Init /\ [][Next]_vars

SpecAny == InitAny /\ [][Next]_vars

\* ===================================================================== claims
\* every fixed field of record r is null
AllNull(r) == \A f \in FIELDS : f \in DOMAIN r /\ r[f] = None

\* the iteration of row `index` has just completed (cur describes that row)
RowCompleted == pc \in {"row", "done"} /\ index > 0

\* the exceptions that fetch_publisher_metadata lets through to its caller
FetchExceptions == {"ValueError", "AttributeError", "TypeError"}

\* C1: at every instant, the timestamps record_request has recorded that are
\* younger than period_seconds number at most max_requests.
C1_RateWindow == Len(recent_records) <= max_requests

\* C1 witness: a request was recorded right after the limiter had made the
\* loop wait (the entry waited for is still stored, the new one behind it).
C1_Witness ==
    /\ pc = "attempt"
    /\ Len(request_timestamps) = max_requests + 1
    /\ Len(recent_records) = max_requests

\* C2: the HTTP GET requests issued within any trailing period_seconds
\* window never exceed max_requests, retries included.
C2_Claim == Len(recent_gets) <= max_requests

\* C3: record_request is called once per GET issued and only then: a row that
\* issues no request does not record, and over a run the calls of
\* record_request number the GETs (stated on the runs of one row, whose
\* totals are that row's).
C3_Claim ==
    /\ RowCompleted /\ cur.gets = 0 => ~cur.recorded
    /\ pc = "done" /\ Len(df) = 1 => (IF cur.recorded THEN 1 ELSE 0) = cur.gets

\* C4: fetch never raises to its caller, and every failure path returns the
\* record with every fixed field null.
C4_Claim ==
    /\ exc \notin FetchExceptions
    /\ RowCompleted /\ cur.end \in {"invalid", "empty", "status", "failed", "exhausted"}
           => AllNull(results[index])

\* C5: results is a prefix aligned with the input: its i-th element is the
\* record produced for the i-th row, one per completed row; when the loop
\* has finished there is one record per input row.
C5_OrderAndLength ==
    /\ Len(results) = index
    /\ Len(result_rows) = Len(results)
    /\ \A i \in 1..Len(results) : result_rows[i] = i
    /\ pc = "done" => Len(results) = Len(df)

\* C5 witness: the loop has finished a table of several rows.
C5_Witness == pc = "done" /\ Len(df) >= 2 /\ Len(results) = Len(df)

\* C6: whatever the API answers, the loop is left only with one record per
\* input row; no row's failure aborts the batch.
C6_Claim == pc \in {"done", "raised"} => Len(results) = Len(df)

\* C7: fetch issues at most MAX_RETRIES (3) requests for an identifier, and
\* three transport failures end it with the all-null record after exactly 3.
C7_AttemptCap ==
    /\ cur.gets <= 3
    /\ RowCompleted /\ cur.failures = 3 => cur.gets = 3 /\ AllNull(results[index])

\* C7 witness: a row ended by its third transport failure.
C7_Witness == RowCompleted /\ cur.failures = 3 /\ cur.end = "failed"

\* C8: after a 429 with Retry-After: n (n >= 0) the next attempt for the same
\* identifier starts no sooner than n seconds later, and the 429 has used up
\* one of the MAX_RETRIES attempts.
C8_ServerBackoff ==
    pc = "attempt" /\ last.kind = "throttled" /\ last.hdr.isint /\ last.hdr.n >= 0
        => /\ now - last.at >= last.hdr.n
           /\ attempt = cur.gets
           /\ attempt < MAX_RETRIES

\* C8 witness: the attempt after a 429 that asked for 3 seconds.
C8_Witness == pc = "attempt" /\ last.kind = "throttled" /\ last.hdr = HdrInt(3)

\* C9: on a 429 whose Retry-After is absent or no integer, fetch sleeps
\* DEFAULT_RETRY_DELAY and goes on to the next attempt.
C9_Claim ==
    last.kind = "throttled" /\ ~(last.hdr.present /\ last.hdr.isint)
        => /\ pc \in {"fetch_sleep", "attempt"}
           /\ wake_at = last.at + DEFAULT_RETRY_DELAY
           /\ pc = "attempt" => now >= wake_at

\* a row with neither a non-empty domain nor an integer publisher_id
LacksIdentifier(row) ==
    /\ ~(row.domain.t = "str" /\ row.domain.s # "")
    /\ row.publisher_id.t # "int"

\* C10: a row lacking both a valid id and a domain gets the all-null record,
\* issues no request and does not call record_request.
C10_Claim ==
    RowCompleted /\ LacksIdentifier(df[index])
        => AllNull(results[index]) /\ cur.gets = 0 /\ ~cur.recorded

\* the row whose fetch is in progress
InFetch == pc \in {"attempt", "fetch_sleep"}

\* a non-empty domain string
HasDomain(row) == row.domain.t = "str" /\ row.domain.s # ""

\* C11: a row holding a non-empty domain and a publisher_id is fetched with
\* kind domain and the domain value, never with the publisher_id.
C11_DomainPriority ==
    /\ InFetch /\ HasDomain(df[index + 1]) /\ NotNa(df[index + 1].publisher_id)
           => id_type = "domain" /\ identifier = df[index + 1].domain
    /\ RowCompleted /\ HasDomain(df[index]) /\ NotNa(df[index].publisher_id)
           => cur.gets >= 1 /\ cur.end \notin {"skipped", "invalid"}

\* C11 witness: the fetch of the row domain "x.com", publisher_id 42.
C11_Witness ==
    /\ pc = "attempt"
    /\ df[index + 1] = [publisher_id |-> PyInt(42), domain |-> PyStr("x.com")]
    /\ id_type = "domain"

\* C12: a row without a non-empty domain (missing or "") whose publisher_id
\* is an integer, 0 included, is fetched with kind id and that publisher_id.
C12_Claim ==
    /\ InFetch /\ ~HasDomain(df[index + 1]) /\ df[index + 1].publisher_id.t = "int"
           => id_type = "id" /\ identifier = df[index + 1].publisher_id
    /\ RowCompleted /\ ~HasDomain(df[index]) /\ df[index].publisher_id.t = "int"
           => cur.gets >= 1 /\ cur.end # "skipped"

\* C13: every record in results holds every one of the 19 fixed fields,
\* whichever path produced it.
C13_Rectangular ==
    /\ Cardinality(FIELDS) = 19
    /\ \A i \in 1..Len(results) : FIELDS \subseteq DOMAIN results[i]

\* C13 witness: the record of a 200 response that lacks most fields, after
\* the record of a row that ended without any response.
C13_Witness ==
    /\ RowCompleted /\ index = 2
    /\ cur.end = "ok" /\ results[2]["name"] = PyStr("Beta")
    /\ results[2]["slug"] = None
    /\ AllNull(results[1])

\* C14: a 200 (object, non-empty list or empty list) and any status other
\* than 200 and 429 end the fetch at once: no further attempt, no sleep; the
\* empty list and the other status give the all-null record.
C14_Terminal ==
    cur.end \in {"ok", "empty", "status"}
        => /\ pc \in {"row", "done"}
           /\ wake_at = 0
           /\ cur.end \in {"empty", "status"} => AllNull(results[index])

\* C14 witness: a status other than 200 and 429 on a second attempt.
C14_Witness == RowCompleted /\ cur.end = "status" /\ cur.gets = 2

\* C15: every emitted record carries the row's raw publisher_id and domain
\* in input_publisher_id and input_domain, for each column the input has,
\* whichever identifier was looked up and however the fetch ended.
C15_Passthrough ==
    \A i \in 1..Len(results) :
        /\ has_pub_id <=> "input_publisher_id" \in DOMAIN results[i]
        /\ has_domain <=> "input_domain" \in DOMAIN results[i]
        /\ has_pub_id => results[i]["input_publisher_id"] = df[i].publisher_id
        /\ has_domain => results[i]["input_domain"] = df[i].domain

\* C15 witness: a row looked up by its domain whose response names another
\* publisher_id than the input's.
C15_Witness ==
    /\ RowCompleted /\ cur.end = "ok"
    /\ df[index].publisher_id = PyInt(42)
    /\ results[index]["publisher_id"] = PyInt(7)

\* C16: once more than max_requests requests have been paced and recorded,
\* the time from the first to the latest recorded one, times max_requests,
\* is at least (their number - max_requests) times period_seconds.
C16_Throughput ==
    paced.n > max_requests
        => (paced.last - paced.first) * max_requests
               >= (paced.n - max_requests) * period_seconds

\* C16 witness: requests recorded back to back with no time spent in fetch
\* (rows that record and issue no request), more of them than max_requests,
\* at exactly the bound.
C16_Witness ==
    /\ RowCompleted /\ index = Len(df) /\ paced.n = index
    /\ \A i \in 1..Len(df) : df[i] = [publisher_id |-> PyStr("abc"), domain |-> NaN]
    /\ paced.n > max_requests
    /\ (paced.last - paced.first) * max_requests = (paced.n - max_requests) * period_seconds

\* the rows among the first k for which the loop found an identifier
RecordingRows(k) == {i \in 1..k : Truthy(SelectIdentifier(df[i]).identifier)}

C18_Claim == exc # "IndexError"

\* C19: a backoff sleep inside fetch is pending only when another attempt
\* follows it; fetch does not sleep after its final attempt.
C19_Claim == pc = "fetch_sleep" => cur.gets < MAX_RETRIES

\* the deque is in non-decreasing order
Sorted(q) == \A i \in 1..Len(q) - 1 : q[i] <= q[i + 1]

====
